---- MODULE Spec2Model ----
(***************************************************************************)
(* Model of brick_translator/i18n_generator.py: the path-keyed flattener   *)
(* (_extract_translatable_values), the tree rebuilder                      *)
(* (_build_translated_structure), the per-language translation cache and   *)
(* the orchestrator generate_i18n.                                         *)
(*                                                                         *)
(* Python strings are sequences of one-character strings, so that path     *)
(* construction (f"{path}.{key}", f"{path}[{i}]") and str.strip() are      *)
(* computed, not assumed.  A Python dict is a sequence of <<key, value>>   *)
(* pairs with pairwise distinct keys, in insertion order; a key is a       *)
(* character sequence and a value is a JSON value record.                  *)
(***************************************************************************)
EXTENDS Integers, Sequences, FiniteSets, TLC

(***************************************************************************)
(* JSON values (what json.load returns).                                   *)
(***************************************************************************)
JStr(s) == [kind |-> "str", val |-> s]
JNum(n) == [kind |-> "num", val |-> n]
JBool(b) == [kind |-> "bool", val |-> b]
JNull == [kind |-> "null"]
JDict(items) == [kind |-> "dict", items |-> items]
JList(items) == [kind |-> "list", items |-> items]

(***************************************************************************)
(* Python string helpers.                                                  *)
(***************************************************************************)
Whitespace == {" ", "\t", "\n"}

RECURSIVE lstrip(_)
lstrip(s) == IF s # <<>> /\ Head(s) \in Whitespace THEN lstrip(Tail(s)) ELSE s

RECURSIVE rstrip(_)
rstrip(s) ==
  IF s # <<>> /\ s[Len(s)] \in Whitespace THEN rstrip(SubSeq(s, 1, Len(s) - 1)) ELSE s

\* str.strip(): leading and trailing whitespace removed.
strip(s) == rstrip(lstrip(s))

DigitChars == <<"0", "1", "2", "3", "4", "5", "6", "7", "8", "9">>

\* str(i) for a list index i >= 0, as formatted by f"[{i}]".
RECURSIVE format_int(_)
format_int(n) ==
  IF n < 10 THEN <<DigitChars[n + 1]>>
  ELSE format_int(n \div 10) \o <<DigitChars[(n % 10) + 1]>>

(***************************************************************************)
(* Python dict operations on insertion-ordered pair sequences.             *)
(***************************************************************************)
dict_keys(d) == {d[i][1] : i \in 1..Len(d)}

dict_contains(d, k) == \E i \in 1..Len(d) : d[i][1] = k

dict_getitem(d, k) == d[CHOOSE i \in 1..Len(d) : d[i][1] = k][2]

\* d[k] = v: an existing key keeps its position, a new key goes last.
dict_setitem(d, k, v) ==
  IF dict_contains(d, k)
  THEN [i \in 1..Len(d) |-> IF d[i][1] = k THEN <<k, v>> ELSE d[i]]
  ELSE Append(d, <<k, v>>)

\* d.update(e)
RECURSIVE dict_update(_, _)
dict_update(d, e) ==
  IF e = <<>> THEN d
  ELSE dict_update(dict_setitem(d, Head(e)[1], Head(e)[2]), Tail(e))

(***************************************************************************)
(* _extract_translatable_values (the flattener).                           *)
(***************************************************************************)
RECURSIVE _extract_translatable_values(_, _)
RECURSIVE extract_dict_loop(_, _, _, _)
RECURSIVE extract_list_loop(_, _, _, _)

\* for key, value in obj.items(): ... translatable.update(recursive call)
extract_dict_loop(items, path, n, translatable) ==
  IF n > Len(items) THEN translatable
  ELSE LET key == items[n][1]
           value == items[n][2]
           new_path == IF path # <<>> THEN path \o <<".">> \o key ELSE key
       IN  extract_dict_loop(items, path, n + 1,
             dict_update(translatable, _extract_translatable_values(value, new_path)))

\* for i, item in enumerate(obj): ... translatable.update(recursive call)
extract_list_loop(items, path, n, translatable) ==
  IF n > Len(items) THEN translatable
  ELSE LET i == n - 1
           item == items[n]
           new_path == path \o <<"[">> \o format_int(i) \o <<"]">>
       IN  extract_list_loop(items, path, n + 1,
             dict_update(translatable, _extract_translatable_values(item, new_path)))

\* Mutant: "if obj:" (the strip() forgotten).
extract_is_nonempty(s) == s # <<>>

\* The test "if obj.strip():" that admits a string leaf.
extract_is_translatable(s) == strip(s) # <<>>

_extract_translatable_values(obj, path) ==
  IF obj.kind = "dict" THEN extract_dict_loop(obj.items, path, 1, <<>>)
  ELSE IF obj.kind = "list" THEN extract_list_loop(obj.items, path, 1, <<>>)
  ELSE IF obj.kind = "str"
       THEN IF extract_is_translatable(obj.val) THEN <<<<path, obj>>>> ELSE <<>>
  ELSE <<>>

(***************************************************************************)
(* _build_translated_structure (the rebuilder).                            *)
(***************************************************************************)
RECURSIVE _build_translated_structure(_, _, _)
RECURSIVE build_dict_loop(_, _, _, _, _)
RECURSIVE build_list_loop(_, _, _, _, _)

\* for key, value in original_obj.items(): result[key] = recursive call
build_dict_loop(items, translations, path, n, result) ==
  IF n > Len(items) THEN result
  ELSE LET key == items[n][1]
           value == items[n][2]
           new_path == IF path # <<>> THEN path \o <<".">> \o key ELSE key
       IN  build_dict_loop(items, translations, path, n + 1,
             dict_setitem(result, key,
               _build_translated_structure(value, translations, new_path)))

\* for i, item in enumerate(original_obj): result.append(recursive call)
build_list_loop(items, translations, path, n, result) ==
  IF n > Len(items) THEN result
  ELSE LET i == n - 1
           item == items[n]
           new_path == path \o <<"[">> \o format_int(i) \o <<"]">>
       IN  build_list_loop(items, translations, path, n + 1,
             Append(result, _build_translated_structure(item, translations, new_path)))

\* Mutant: translations.get(path, "") instead of keeping the original string.
build_string_leaf_or_empty(original_obj, translations, path) ==
  IF dict_contains(translations, path)
  THEN dict_getitem(translations, path)
  ELSE JStr(<<>>)

\* The string branch: "if path in translations: return translations[path]".
build_string_leaf(original_obj, translations, path) ==
  IF dict_contains(translations, path)
  THEN dict_getitem(translations, path)
  ELSE original_obj

\* Mutant: the isinstance(original_obj, str) test dropped, so that any leaf
\* whose path is a key of the map is replaced.
build_any_leaf(original_obj, translations, path) ==
  IF original_obj.kind = "dict"
  THEN JDict(build_dict_loop(original_obj.items, translations, path, 1, <<>>))
  ELSE IF original_obj.kind = "list"
  THEN JList(build_list_loop(original_obj.items, translations, path, 1, <<>>))
  ELSE build_string_leaf(original_obj, translations, path)

_build_translated_structure(original_obj, translations, path) ==
  IF original_obj.kind = "dict"
  THEN JDict(build_dict_loop(original_obj.items, translations, path, 1, <<>>))
  ELSE IF original_obj.kind = "list"
  THEN JList(build_list_loop(original_obj.items, translations, path, 1, <<>>))
  ELSE IF original_obj.kind = "str"
  THEN build_string_leaf(original_obj, translations, path)
  ELSE original_obj

(***************************************************************************)
(* The nodes of a Document with the Path each one is given by the          *)
(* traversal shared by the flattener and the rebuilder.  A position is the *)
(* sequence of entry numbers leading from the root to the node.            *)
(***************************************************************************)
RECURSIVE walk(_, _, _)
walk(obj, path, pos) ==
  {[pos |-> pos, path |-> path, kind |-> obj.kind]} \cup
  IF obj.kind = "dict"
  THEN UNION {walk(obj.items[n][2],
                   IF path # <<>> THEN path \o <<".">> \o obj.items[n][1]
                                  ELSE obj.items[n][1],
                   Append(pos, n)) : n \in 1..Len(obj.items)}
  ELSE IF obj.kind = "list"
  THEN UNION {walk(obj.items[n], path \o <<"[">> \o format_int(n - 1) \o <<"]">>,
                   Append(pos, n)) : n \in 1..Len(obj.items)}
  ELSE {}

\* The node of obj at a position.
RECURSIVE node_at(_, _)
node_at(obj, pos) ==
  IF pos = <<>> THEN obj
  ELSE node_at(IF obj.kind = "dict" THEN obj.items[Head(pos)][2] ELSE obj.items[Head(pos)],
               Tail(pos))

(***************************************************************************)
(* Object identity.  An object of the input Document is named by its       *)
(* position, a value of the translation map by its key, and a container    *)
(* created by a call of the rebuilder by the position the call works at.   *)
(***************************************************************************)
\* A rebuilder that hands back an empty container of the Document as it is.
container_shared_when_empty(original_obj, pos) ==
  IF original_obj.items = <<>> THEN [owner |-> "doc", at |-> pos]
  ELSE [owner |-> "result", at |-> pos]

\* "result = {}" and "result = []": the container the call returns is
\* created by the call.
new_container(original_obj, pos) == [owner |-> "result", at |-> pos]

\* The objects of the tree _build_translated_structure returns: the kind
\* of each and which object it is.
RECURSIVE build_objects(_, _, _, _)
build_objects(original_obj, translations, path, pos) ==
  IF original_obj.kind = "dict"
  THEN {[kind |-> "dict", id |-> new_container(original_obj, pos)]} \cup
       UNION {build_objects(original_obj.items[n][2], translations,
                            IF path # <<>> THEN path \o <<".">> \o original_obj.items[n][1]
                                           ELSE original_obj.items[n][1],
                            Append(pos, n)) : n \in 1..Len(original_obj.items)}
  ELSE IF original_obj.kind = "list"
  THEN {[kind |-> "list", id |-> new_container(original_obj, pos)]} \cup
       UNION {build_objects(original_obj.items[n], translations,
                            path \o <<"[">> \o format_int(n - 1) \o <<"]">>,
                            Append(pos, n)) : n \in 1..Len(original_obj.items)}
  ELSE IF original_obj.kind = "str" /\ dict_contains(translations, path)
  THEN {[kind |-> dict_getitem(translations, path).kind,
         id |-> [owner |-> "map", at |-> path]]}
  ELSE {[kind |-> original_obj.kind, id |-> [owner |-> "doc", at |-> pos]]}

(***************************************************************************)
(* Bounded input Documents for the flattener and the rebuilder.            *)
(***************************************************************************)
\* Largest number of entries (dict items plus list elements, summed over
\* every container of the tree) of an input Document.
MaxSize == 3

\* Dict keys: plain, containing the path separator, and empty.
Keys == {<<"a">>, <<"a", ".", "a">>, <<>>}

\* Scalar leaves: a plain string, a string with leading whitespace, a
\* whitespace-only string, the empty string, a number and null.  (A boolean
\* takes the same isinstance branches as a number.)
Leaves ==
  {JStr(<<"x">>), JStr(<<" ", "y">>), JStr(<<" ">>), JStr(<<>>), JNum(3), JNull}

\* Key sequences of a dict of m entries: pairwise distinct, in any order.
KeySeqs(m) == {ks \in [1..m -> Keys] : \A i, j \in 1..m : i # j => ks[i] # ks[j]}

RECURSIVE Zip(_, _)
Zip(ks, vs) ==
  IF ks = <<>> THEN <<>> ELSE <<<<Head(ks), Head(vs)>>>> \o Zip(Tail(ks), Tail(vs))

\* The sequences of m Documents with exactly b entries in all, where
\* table[s + 1] is the set of Documents of exactly s entries.
RECURSIVE ChildSeqs(_, _, _)
ChildSeqs(table, m, b) ==
  IF m = 0 THEN (IF b = 0 THEN {<<>>} ELSE {})
  ELSE UNION {{<<c>> \o r : c \in table[s + 1], r \in ChildSeqs(table, m - 1, b - s)}
              : s \in 0..b}

\* The lists and the dicts of m entries and exactly n entries in all.
ListsOfSize(table, m, n) == {JList(c) : c \in ChildSeqs(table, m, n - m)}

DictsOfSize(table, m, n) ==
  {JDict(Zip(ks, c)) : ks \in KeySeqs(m), c \in ChildSeqs(table, m, n - m)}

RECURSIVE DocsTable(_)
DocsTable(n) ==
  IF n = 0 THEN <<Leaves \cup {JDict(<<>>), JList(<<>>)}>>
  ELSE LET table == DocsTable(n - 1)
       IN  Append(table, UNION {ListsOfSize(table, m, n) \cup DictsOfSize(table, m, n)
                                : m \in 1..n})

\* Documents of fewer than MaxSize entries, by number of entries.
SmallDocs == DocsTable(MaxSize - 1)

\* doc is a Document of at most MaxSize entries over Keys and Leaves.
ChooseDoc(d) ==
  \/ \E s \in 1..MaxSize : d \in SmallDocs[s]
  \/ \E m \in 1..MaxSize : d \in ListsOfSize(SmallDocs, m, MaxSize)
  \/ \E m \in 1..MaxSize : d \in DictsOfSize(SmallDocs, m, MaxSize)

\* Paths offered as keys of a translation map: a top-level key, a nested or
\* dotted-key path, a list-element path and a malformed path.
MapPaths == {<<"a">>, <<"a", ".", "a">>, <<"[", "0", "]">>, <<"]", ".">>}

RECURSIVE SetToSeq(_)
SetToSeq(S) ==
  IF S = {} THEN <<>>
  ELSE LET e == CHOOSE x \in S : TRUE IN <<e>> \o SetToSeq(S \ {e})

\* Translation maps: every subset of MapPaths, each key mapped to "T".
Maps ==
  {[i \in 1..Len(ks) |-> <<ks[i], JStr(<<"T">>)>>] :
     ks \in {SetToSeq(S) : S \in SUBSET MapPaths}}

(***************************************************************************)
(* State.                                                                  *)
(*   doc               the input Document (the parsed content of           *)
(*                     input_file)                                         *)
(*   translatable      translatable_values, the flattener's result         *)
(*   translations_arg, rebuilt, op                                         *)
(*                     argument and result of a direct call of the         *)
(*                     rebuilder, and the last pure function applied       *)
(*   languages, use_cache, output_format   arguments of generate_i18n      *)
(*   cache_dir, cache_files, output_files   the file system: whether       *)
(*                     <inputDir>/.i18n_cache exists, and per language the *)
(*                     cache file and the output file                      *)
(*   initial_cache     the cache file content before the first run (of the *)
(*                     first language where the languages differ)          *)
(*   run, pc, lang_idx, leaf_idx   control: run number, position in        *)
(*                     generate_i18n, loop indices                         *)
(*   translation_cache, loaded_cache, translations   locals of the         *)
(*                     language loop (loaded_cache: value returned by      *)
(*                     _load_translation_cache)                            *)
(*   ret, abort_cause  return value and the statement whose exception      *)
(*                     reached the outer except                            *)
(*   faults            number of I/O failures and terminations the         *)
(*                     environment has injected                            *)
(*   events            per-language log of cache, backend and file steps   *)
(*   total_calls, calls_failed   backend invocations in this run           *)
(*   cache_before      per language, the cache file when the run started   *)
(*   config_file, config_before   the config file now and before the last  *)
(*                     command                                             *)
(*   cli_command, cli_args   the last command line given to cli.main       *)
(*   cli_exit, cli_stdout, cli_stderr   its exit status and what it wrote  *)
(*   cli_count         number of commands run                              *)
(*   cache_paths       the cache file paths computed so far, each with     *)
(*                     the input stem and the language it was computed for *)
(*   sent              the (language, text) pairs handed to the backend    *)
(*                     since the first run                                 *)
(***************************************************************************)
VARIABLES doc, translatable, translations_arg, rebuilt, op,
          languages, use_cache, cache_dir, cache_files, output_files,
          initial_cache, run, pc, lang_idx, leaf_idx,
          translation_cache, loaded_cache, translations,
          ret, abort_cause, faults, events, total_calls, calls_failed, sent,
          output_format, cache_before,
          config_file, config_before, cli_command, cli_args, cli_exit,
          cli_stdout, cli_stderr, cli_count, cache_paths

tree_vars == <<translations_arg, rebuilt, op>>

run_vars ==
  <<languages, use_cache, cache_dir, cache_files, output_files, initial_cache,
    run, pc, lang_idx, leaf_idx, translation_cache, loaded_cache, translations,
    ret, abort_cause, faults, events, total_calls, calls_failed, sent,
    output_format, cache_before>>

cli_vars ==
  <<config_file, config_before, cli_command, cli_args, cli_exit, cli_stdout,
    cli_stderr, cli_count>>

cfg_vars == <<cli_vars, cache_paths>>

vars == <<doc, translatable, tree_vars, run_vars, cfg_vars>>

(***************************************************************************)
(* Files.                                                                  *)
(***************************************************************************)
AbsentFile == [state |-> "absent"]
\* A file whose text is not a complete JSON document (truncated or garbage).
PartialFile == [state |-> "partial"]
\* A file holding the JSON text of value v.
JsonFile(v) == [state |-> "json", data |-> v]
YamlFile(v) == [state |-> "yaml", data |-> v]
\* The file holds a complete serialised document.
IsWritten(file) == file.state \in {"json", "yaml"}

Langs == {"zh", "es"}

(***************************************************************************)
(* The config file and its readers (config_manager.py, translator.py).     *)
(* A string is the sequence of the pieces it is formatted from.            *)
(***************************************************************************)
\* for provider in ["qwen", "claude", "gemini", "openai"]
Providers == <<"qwen", "claude", "gemini", "openai">>
ProviderSet == {Providers[n] : n \in 1..Len(Providers)}

\* The api_key values generate_default_config writes.
TemplateKey(provider) ==
  CASE provider = "qwen" -> <<"your_", "dashscope", "_api_key_here">>
    [] provider = "claude" -> <<"your_", "anthropic", "_api_key_here">>
    [] provider = "gemini" -> <<"your_", "google", "_api_key_here">>
    [] provider = "openai" -> <<"your_", "openai", "_api_key_here">>

\* A provider section: absent from the config, or holding an api_key (the
\* empty sequence for a key that is missing or the empty string).
NoSection == [present |-> FALSE, api_key |-> <<>>]
Section(api_key) == [present |-> TRUE, api_key |-> api_key]

NoDefault == "(absent)"

generate_default_config(default_provider) ==
  [sections |-> [p \in ProviderSet |-> Section(TemplateKey(p))],
   default_provider |-> default_provider]

MalformedFile == [state |-> "malformed"]
ConfigFile(config) == [state |-> "json", data |-> config]

\* validate_config: the config, or the exception raised.
validate_config(file) ==
  IF file.state = "absent" THEN [raises |-> "FileNotFoundError"]
  ELSE IF file.state = "malformed" THEN [raises |-> "ValueError"]
  ELSE [raises |-> "none", config |-> file.data]

\* The placeholder get_available_providers compares with.
listing_placeholder(provider) == <<"your_", provider, "_api_key_here">>

\* get_available_providers
get_available_providers(file) ==
  IF validate_config(file).raises # "none" THEN <<>>
  ELSE LET config == validate_config(file).config
           available(provider) ==
             /\ config.sections[provider].present
             /\ config.sections[provider].api_key # <<>>
             /\ config.sections[provider].api_key # listing_placeholder(provider)
       IN  SelectSeq(Providers, available)

\* An init_config that ignores force.
init_skips_existing(exists, force) == exists

\* init_config refuses to write: "config_file.exists() and not force".
init_skips(exists, force) == exists /\ ~force

\* init_config(config_path, force, default_provider): the value returned,
\* the file left, and the kinds of the lines printed; outcome is that of
\* open and json.dump as for write_json.
init_config(file, force, default_provider, outcome) ==
  IF init_skips(file.state # "absent", force)
  THEN [ret |-> FALSE, file |-> file, printed |-> <<"[WARN]", "hint">>]
  ELSE IF outcome = "ok"
  THEN [ret |-> TRUE, file |-> ConfigFile(generate_default_config(default_provider)),
        printed |-> <<"[OK]", "[INFO]">>]
  ELSE [ret |-> FALSE, file |-> IF outcome = "open" THEN file ELSE MalformedFile,
        printed |-> <<"[ERROR]">>]

\* BrickTranslator._load_config
_load_config(file) ==
  IF file.state = "absent" THEN [raises |-> "FileNotFoundError"]
  ELSE IF file.state = "malformed" THEN [raises |-> "JSONDecodeError"]
  ELSE [raises |-> "none", config |-> file.data]

\* self.provider: the argument, else the config's default_provider, else qwen.
selected_provider(config, provider) ==
  IF provider # "None" THEN provider
  ELSE IF config.default_provider # NoDefault THEN config.default_provider
  ELSE "qwen"

\* A credential check that accepts the value generate_default_config wrote.
_init_client_accepts_template(config, provider) ==
  IF provider \notin ProviderSet THEN [raises |-> "ValueError"]
  ELSE IF config.sections[provider].api_key = <<>>
  THEN [raises |-> "ValueError"]
  ELSE [raises |-> "none"]

\* BrickTranslator._init_client: the credential check of the provider.
_init_client(config, provider) ==
  IF provider \notin ProviderSet THEN [raises |-> "ValueError"]
  ELSE IF \/ config.sections[provider].api_key = <<>>
          \/ config.sections[provider].api_key = TemplateKey(provider)
  THEN [raises |-> "ValueError"]
  ELSE [raises |-> "none"]

\* BrickTranslator(provider, config_path): the exception raised, or the
\* provider of the translator constructed.
BrickTranslator(file, provider) ==
  IF _load_config(file).raises # "none" THEN [raises |-> _load_config(file).raises]
  ELSE LET config == _load_config(file).config
           chosen == selected_provider(config, provider)
       IN  IF _init_client(config, chosen).raises # "none"
           THEN [raises |-> _init_client(config, chosen).raises]
           ELSE [raises |-> "none", provider |-> chosen]

\* The text a provider's response carries when it carries one.
ResponseText == <<"translated">>

\* The responses of a provider's API, by what they hold: "text" a
\* non-empty text, "blank" a text that is the empty string, "empty" no text
\* at all (no content block, no choice, no message, text None).
ResponseKinds == {"text", "blank", "empty"}

\* _extract_claude_response: "response.content and len(response.content) >
\* 0", then content[0].text as it is.
_extract_claude_response(response) ==
  IF response = "empty" THEN [raises |-> "ValueError"]
  ELSE [raises |-> "none", text |-> IF response = "blank" THEN <<>> ELSE ResponseText]

\* _extract_gemini_response: "if response.text".
_extract_gemini_response(response) ==
  IF response \in {"empty", "blank"} THEN [raises |-> "ValueError"]
  ELSE [raises |-> "none", text |-> ResponseText]

\* _extract_openai_response (Qwen and OpenAI): choices, message and
\* message.content must all be truthy.
_extract_openai_response(response) ==
  IF response \in {"empty", "blank"} THEN [raises |-> "ValueError"]
  ELSE [raises |-> "none", text |-> ResponseText]

\* translate / translate_with_context of a translator for provider: the
\* call of the provider's API raises, or its response is extracted.
translate(provider, backend) ==
  IF backend = "raise" THEN [raises |-> "APIError"]
  ELSE IF provider = "claude" THEN _extract_claude_response(backend)
  ELSE IF provider = "gemini" THEN _extract_gemini_response(backend)
  ELSE _extract_openai_response(backend)

NoArgs == [force |-> FALSE, default_provider |-> "qwen", provider |-> "None", backend |-> "none"]

CliIdle ==
  /\ config_file = AbsentFile
  /\ config_before = AbsentFile
  /\ cli_command = "none"
  /\ cli_args = NoArgs
  /\ cli_exit = -1
  /\ cli_stdout = <<>>
  /\ cli_stderr = <<>>
  /\ cli_count = 0
  /\ cache_paths = {}

RunIdle ==
  /\ languages = <<>>
  /\ use_cache = FALSE
  /\ cache_dir = FALSE
  /\ cache_files = [l \in Langs |-> AbsentFile]
  /\ output_files = [l \in Langs |-> AbsentFile]
  /\ initial_cache = AbsentFile
  /\ run = 0
  /\ pc = "idle"
  /\ lang_idx = 0
  /\ leaf_idx = 0
  /\ translation_cache = JNull
  /\ loaded_cache = JNull
  /\ translations = <<>>
  /\ ret = "None"
  /\ abort_cause = "none"
  /\ faults = 0
  /\ events = <<>>
  /\ total_calls = 0
  /\ calls_failed = FALSE
  /\ sent = {}
  /\ output_format = "json"
  /\ cache_before = [l \in Langs |-> AbsentFile]

(***************************************************************************)
(* Specification SpecTree: the flattener and the rebuilder applied to      *)
(* every bounded Document.                                                 *)
(***************************************************************************)
TreeInit ==
  /\ ChooseDoc(doc)
  /\ translations_arg = <<>>
  /\ translatable = <<>>
  /\ rebuilt = JNull
  /\ op = "none"
  /\ RunIdle
  /\ CliIdle

\* translatable_values = self._extract_translatable_values(source_data)
Extract ==
  /\ op = "none"
  /\ translatable' = _extract_translatable_values(doc, <<>>)
  /\ op' = "extract"
  /\ UNCHANGED <<doc, translations_arg, rebuilt, run_vars, cfg_vars>>

\* self._build_translated_structure(D, flatten(D))
RoundTrip ==
  /\ op = "extract"
  /\ translations_arg' = translatable
  /\ rebuilt' = _build_translated_structure(doc, translatable, <<>>)
  /\ op' = "roundtrip"
  /\ UNCHANGED <<doc, translatable, run_vars, cfg_vars>>

\* self._build_translated_structure(D, M) for an arbitrary map M
Build ==
  /\ op = "none"
  /\ \E M \in Maps :
       /\ translations_arg' = M
       /\ rebuilt' = _build_translated_structure(doc, M, <<>>)
  /\ op' = "build"
  /\ UNCHANGED <<doc, translatable, run_vars, cfg_vars>>

TreeNext == Extract \/ RoundTrip \/ Build

SpecTree == TreeInit /\ [][TreeNext]_vars

(***************************************************************************)
(* Cache file paths.  File names are sequences of characters; the inputs   *)
(* lie in one directory.                                                   *)
(***************************************************************************)
\* Largest number of cache file paths computed in one behaviour.
MaxPaths == 2

\* Input stems and language tags, with and without '_'.
PathStems == {<<"a">>, <<"b">>, <<"a", "_", "b">>, <<"a", "_", "z", "h">>}
PathLanguages == {<<"c">>, <<"z", "h">>, <<"b", "_", "c">>, <<"z", "h", "_", "c">>}

\* The file name of _get_cache_file_path: f"{input_path.stem}_{language}.json"
\* below <inputDir>/.i18n_cache.
cache_file_name(stem, language) ==
  <<".i18n_cache", "/">> \o stem \o <<"_">> \o language \o <<".", "j", "s", "o", "n">>

PathInit ==
  /\ doc = JNull
  /\ translatable = <<>>
  /\ translations_arg = <<>>
  /\ rebuilt = JNull
  /\ op = "none"
  /\ RunIdle
  /\ CliIdle

\* self._get_cache_file_path(input_file, lang) for an input and a language.
CachePathFor ==
  /\ Cardinality(cache_paths) < MaxPaths
  /\ \E stem \in PathStems, language \in PathLanguages :
       cache_paths' = cache_paths \cup
         {[stem |-> stem, language |-> language, path |-> cache_file_name(stem, language)]}
  /\ UNCHANGED <<doc, translatable, tree_vars, run_vars, cli_vars>>

PathNext == CachePathFor

SpecPaths == PathInit /\ [][PathNext]_vars

(***************************************************************************)
(* Claims about the flattener and the rebuilder (specification SpecTree).  *)
(***************************************************************************)
\* The nodes of the input Document, and those that are leaves.
DocNodes == walk(doc, <<>>, <<>>)
DocLeaves == {n \in DocNodes : n.kind \notin {"dict", "list"}}
DocStrings == {n \in DocNodes : n.kind = "str"}

\* C1: round-trip law: rebuilding a Document with the map the flattener
\* produced from it gives back the Document, leaf for leaf.
C1_RoundTrip == op = "roundtrip" => rebuilt = doc

\* C2: path uniqueness: two different leaves of one Document never receive
\* the same Path, so every Path the flattener produced belongs to exactly one
\* string leaf that the rebuilder looks up.
C2_PathsUnique ==
  op = "extract" =>
    /\ \A n1, n2 \in DocLeaves : n1.pos # n2.pos => n1.path # n2.path
    /\ \A p \in dict_keys(translatable) :
         Cardinality({n \in DocStrings : n.path = p}) = 1

\* Same dict keys in the same order, same list lengths and equal non-string
\* leaves at every level; a string leaf may only become another string.
RECURSIVE SameShape(_, _)
SameShape(a, b) ==
  /\ a.kind = b.kind
  /\ IF a.kind = "dict"
     THEN /\ Len(a.items) = Len(b.items)
          /\ \A n \in 1..Len(a.items) :
               /\ a.items[n][1] = b.items[n][1]
               /\ SameShape(a.items[n][2], b.items[n][2])
     ELSE IF a.kind = "list"
     THEN /\ Len(a.items) = Len(b.items)
          /\ \A n \in 1..Len(a.items) : SameShape(a.items[n], b.items[n])
     ELSE a.kind = "str" \/ a = b

\* C3: shape preservation: whatever the translation map, the rebuilt tree has
\* the Document's dict keys in order and list lengths, and its number, boolean
\* and null leaves are unchanged.
C3_ShapePreserved == op \in {"build", "roundtrip"} => SameShape(doc, rebuilt)

C3_Witness ==
  /\ op = "build"
  /\ \E n \in DocNodes : n.kind = "num" /\ dict_contains(translations_arg, n.path)
  /\ \E n \in DocNodes : n.kind = "dict" /\ dict_contains(translations_arg, n.path)
  /\ dict_contains(translations_arg, <<"]", ".">>)
  /\ rebuilt # doc

\* C4: rebuilding with the empty map is the identity.
C4_EmptyMapIdentity == (op = "build" /\ translations_arg = <<>>) => rebuilt = doc

C4_Witness ==
  /\ op = "build"
  /\ translations_arg = <<>>
  /\ \E n1, n2 \in DocStrings : n1.pos # n2.pos /\ Len(n1.pos) = 2
  /\ rebuilt = doc

\* C5: every entry of the flattener's result is a string that is non-blank
\* after trimming and is the leaf found in the Document at the entry's path;
\* no number, null, empty or whitespace-only string is a value.
C5_FlattenContent ==
  op = "extract" =>
    \A i \in 1..Len(translatable) :
      LET p == translatable[i][1]
          v == translatable[i][2]
      IN  /\ v.kind = "str"
          /\ strip(v.val) # <<>>
          /\ \E n \in DocStrings : n.path = p /\ node_at(doc, n.pos) = v

C5_Witness ==
  /\ op = "extract"
  /\ Len(translatable) = 2
  /\ \E n \in DocStrings : strip(node_at(doc, n.pos).val) = <<>>
  /\ \E i \in 1..2 : translatable[i][2] = JStr(<<" ", "y">>) /\ Len(translatable[i][1]) > 1

\* The map without one key.
dict_without(d, k) == SelectSeq(d, LAMBDA e : e[1] # k)

\* C6: rebuild substitution: a string leaf at path p comes out as M[p] when p
\* is a key of M and unchanged otherwise; a key of M that is the path of a
\* non-string leaf or of a container has no effect on the result.
C6_StringLeavesSubstituted ==
  op = "build" =>
    /\ SameShape(doc, rebuilt)
    /\ \A n \in DocStrings :
         node_at(rebuilt, n.pos) =
           IF dict_contains(translations_arg, n.path)
           THEN dict_getitem(translations_arg, n.path)
           ELSE node_at(doc, n.pos)

C6_RebuildSubstitution ==
  /\ C6_StringLeavesSubstituted
  /\ op = "build" =>
       \A k \in dict_keys(translations_arg) :
         (\E n \in DocNodes : n.kind # "str" /\ n.path = k) =>
           rebuilt = _build_translated_structure(doc, dict_without(translations_arg, k), <<>>)


(***************************************************************************)
(* generate_i18n (the orchestrator).                                       *)
(***************************************************************************)
\* Largest number of successive generate_i18n runs on the same input.
MaxRuns == 2
\* Largest number of I/O failures and process terminations the environment
\* injects in one behaviour.
MaxFaults == 1

\* Input Documents of the runs: the spec's scenario (two translatable leaves,
\* a number, an empty string), one string at two leaves, no translatable
\* leaf, and two leaves sharing one Path.
DocScenario ==
  JDict(<< <<<<"t">>, JStr(<<"x">>)>>,
           <<<<"m">>, JDict(<< <<<<"c">>, JNum(3)>> >>)>>,
           <<<<"g">>, JList(<<JStr(<<" ", "y">>), JStr(<<>>)>>)>> >>)

DocRepeated ==
  JDict(<< <<<<"t">>, JStr(<<"x">>)>>, <<<<"g">>, JList(<<JStr(<<"x">>)>>)>> >>)

DocNoText ==
  JDict(<< <<<<"m">>, JDict(<< <<<<"c">>, JNum(3)>> >>)>>,
           <<<<"g">>, JList(<<JStr(<<" ">>)>>)>> >>)

DocCollision ==
  JDict(<< <<<<>>, JDict(<< <<<<"t">>, JStr(<<>>)>> >>)>>, <<<<"t">>, JStr(<<"x">>)>> >>)

InputDocs == {DocScenario, DocRepeated, DocNoText, DocCollision}

LanguageLists == {<<"zh">>, <<"zh", "es">>}

OldCacheFile == JsonFile(JDict(<< <<<<"x">>, JStr(<<"o", "l", "d">>)>> >>))

\* Cache file contents found before the first run: no file, text that is
\* not JSON, JSON that is no object (null, a list), an empty object, an
\* object holding an earlier translation, an object with a non-string value.
InitialCacheFiles ==
  {AbsentFile, PartialFile, JsonFile(JNull), JsonFile(JList(<<>>)), JsonFile(JDict(<<>>)),
   OldCacheFile,
   JsonFile(JDict(<< <<<<"x">>, JNum(3)>> >>))}

\* The language named in the prompt of BrickTranslator.translate:
\* lang_name = "中文" if target_lang == "zh" else "英文".
lang_name(target_lang) == IF target_lang = "zh" THEN "Chinese" ELSE "English"

\* The language generate_i18n announces for a tag:
\* {"zh": "中文", "en": "英文", "es": "西班牙语"}.get(lang, lang).
announced_name(lang) ==
  CASE lang = "zh" -> "Chinese"
    [] lang = "en" -> "English"
    [] lang = "es" -> "Spanish"
    [] OTHER -> lang

\* What self.translator.translate(text, target_lang=lang) may return: the
\* backend is a language model, so the same request has more than one answer.
\* The second answer is enumerated for the text "x", which every Input
\* Document with a translatable leaf contains.
BackendResults(text, lang) ==
  {JStr(<<lang, ":">> \o text.val)}
    \cup (IF text.val = <<"x">> THEN {JStr(<<lang, ":">> \o text.val \o <<"'">>)} ELSE {})

\* s occurs in t as a contiguous substring (str.__contains__).
is_substring(s, t) ==
  \E i \in 0..(Len(t) - Len(s)) : SubSeq(t, i + 1, i + Len(s)) = s

PyBool(b) == IF b THEN "True" ELSE "False"

\* A membership test on the stripped text instead of the text as extracted.
cache_contains_stripped(cache, text) ==
  IF cache.kind = "dict" THEN PyBool(dict_contains(cache.items, strip(text.val)))
  ELSE IF cache.kind = "list"
  THEN PyBool(\E n \in 1..Len(cache.items) : cache.items[n] = JStr(strip(text.val)))
  ELSE IF cache.kind = "str" THEN PyBool(is_substring(strip(text.val), cache.val))
  ELSE "TypeError"

\* "text in translation_cache": "True", "False", or "TypeError" when the
\* loaded JSON value supports no membership test.
cache_contains(cache, text) ==
  IF cache.kind = "dict" THEN PyBool(dict_contains(cache.items, text.val))
  ELSE IF cache.kind = "list"
  THEN PyBool(\E n \in 1..Len(cache.items) : cache.items[n] = text)
  ELSE IF cache.kind = "str" THEN PyBool(is_substring(text.val, cache.val))
  ELSE "TypeError"

\* "translation_cache[text]" for a text found by the membership test; only a
\* dict can be indexed with a string, anything else raises TypeError.
cache_getitem(cache, text) ==
  IF cache.kind = "dict"
  THEN [raises |-> FALSE, value |-> dict_getitem(cache.items, text.val)]
  ELSE [raises |-> TRUE, value |-> JNull]

\* A store under the stripped text.
cache_setitem_stripped(cache, text, translated_text) ==
  IF cache.kind = "dict"
  THEN [raises |-> FALSE,
        cache |-> JDict(dict_setitem(cache.items, strip(text.val), translated_text))]
  ELSE [raises |-> TRUE, cache |-> cache]

\* A store that leaves the cache as it was.
cache_setitem_dropped(cache, text, translated_text) ==
  [raises |-> FALSE, cache |-> cache]

\* "translation_cache[text] = translated_text"; only a dict accepts it,
\* anything else raises TypeError and is left as it was.
cache_setitem(cache, text, translated_text) ==
  IF cache.kind = "dict"
  THEN [raises |-> FALSE, cache |-> JDict(dict_setitem(cache.items, text.val, translated_text))]
  ELSE [raises |-> TRUE, cache |-> cache]

\* _load_translation_cache: the value returned for a cache file; every
\* exception is swallowed and gives {}.
_load_translation_cache(file, open_fails) ==
  IF file.state = "absent" THEN JDict(<<>>)
  ELSE IF open_fails THEN JDict(<<>>)
  ELSE IF file.state = "partial" THEN JDict(<<>>)
  ELSE file.data

\* The file left by "with open(file, 'w') as f: json.dump(data, f)": outcome
\* "ok", "open" (open raised, nothing written) or "dump" (the write failed
\* after open had truncated the file).
write_json(file, data, outcome) ==
  IF outcome = "ok" THEN JsonFile(data)
  ELSE IF outcome = "open" THEN file
  ELSE PartialFile

WriteOutcomes == {"ok", "open", "dump"}

OutputFormats == {"json", "yaml"}

\* ord(c) of the characters that occur in the keys of the input Documents.
ord(c) ==
  CASE c = " " -> 32 [] c = "." -> 46 [] c = "[" -> 91 [] c = "]" -> 93
    [] c = "a" -> 97 [] c = "c" -> 99 [] c = "g" -> 103 [] c = "m" -> 109
    [] c = "t" -> 116 [] c = "x" -> 120 [] c = "y" -> 121

\* s < t for Python strings: by code point, a proper prefix first.
RECURSIVE str_lt(_, _)
str_lt(s, t) ==
  IF t = <<>> THEN FALSE
  ELSE IF s = <<>> THEN TRUE
  ELSE IF ord(Head(s)) # ord(Head(t)) THEN ord(Head(s)) < ord(Head(t))
  ELSE str_lt(Tail(s), Tail(t))

\* sorted(mapping.items()): the items of a dict in ascending key order.
RECURSIVE sorted_items(_)
sorted_items(items) ==
  IF items = <<>> THEN <<>>
  ELSE LET first == CHOOSE n \in 1..Len(items) :
                      \A k \in 1..Len(items) : k # n => str_lt(items[n][1], items[k][1])
           rest == [k \in 1..(Len(items) - 1) |-> IF k < first THEN items[k] ELSE items[k + 1]]
       IN  <<items[first]>> \o sorted_items(rest)

\* yaml.dump(data, f, allow_unicode=True, default_flow_style=False, indent=2):
\* the document the written text denotes, mappings in the order written;
\* sort_keys is left at its default, True.
RECURSIVE yaml_dump(_)
yaml_dump(data) ==
  IF data.kind = "dict"
  THEN JDict(sorted_items([n \in 1..Len(data.items) |->
                             <<data.items[n][1], yaml_dump(data.items[n][2])>>]))
  ELSE IF data.kind = "list"
  THEN JList([n \in 1..Len(data.items) |-> yaml_dump(data.items[n])])
  ELSE data

\* _save_json_file / _save_yaml_file with an outcome as for write_json.
save_output(file, data, format, outcome) ==
  IF format = "json" THEN write_json(file, data, outcome)
  ELSE IF outcome = "ok" THEN YamlFile(yaml_dump(data))
  ELSE IF outcome = "open" THEN file
  ELSE PartialFile

\* An except clause that re-raises to the outer handler.
on_translate_error_reraise(text) == [translation |-> text, abort |-> TRUE]

\* The except clause of the per-leaf try: keep the original text, go on.
on_translate_error(text) == [translation |-> text, abort |-> FALSE]

\* The cache files of the languages before the first run: the same content
\* for each, or a file holding null for the first language of two next to
\* an empty mapping for the second.
InitialCaches(first, langs) ==
  {[l \in Langs |-> first]} \cup
  (IF first = JsonFile(JNull) /\ Len(langs) = 2
   THEN {[l \in Langs |-> IF l = langs[1] THEN first ELSE JsonFile(JDict(<<>>))]}
   ELSE {})

Init ==
  /\ doc \in InputDocs
  /\ translatable = <<>>
  /\ translations_arg = <<>>
  /\ rebuilt = JNull
  /\ op = "none"
  /\ languages \in LanguageLists
  /\ use_cache \in BOOLEAN
  /\ output_format \in OutputFormats
  /\ output_format = "yaml" => ~use_cache
  /\ cache_dir \in BOOLEAN
  /\ initial_cache \in InitialCacheFiles
  /\ ~use_cache => initial_cache \in {AbsentFile, OldCacheFile}
  /\ cache_dir = (initial_cache # AbsentFile)
  /\ cache_files \in InitialCaches(initial_cache, languages)
  /\ output_files = [l \in Langs |-> AbsentFile]
  /\ run = 1
  /\ pc = "mkdir_output"
  /\ lang_idx = 0
  /\ leaf_idx = 0
  /\ translation_cache = JNull
  /\ loaded_cache = JNull
  /\ translations = <<>>
  /\ ret = "None"
  /\ abort_cause = "none"
  /\ faults = 0
  /\ events = <<>>
  /\ total_calls = 0
  /\ calls_failed = FALSE
  /\ sent = {}
  /\ cache_before = cache_files
  /\ CliIdle

CanFail == faults < MaxFaults

\* An outer except clause that reports success.
Abort_returns_true(cause) ==
  /\ ret' = "True"
  /\ abort_cause' = cause
  /\ pc' = "done"

\* The outer "except Exception: return False".
Abort(cause) ==
  /\ ret' = "False"
  /\ abort_cause' = cause
  /\ pc' = "done"

\* Path(output_dir).mkdir(parents=True, exist_ok=True)
MkdirOutput ==
  /\ pc = "mkdir_output"
  /\ \/ /\ pc' = "load_input"
        /\ UNCHANGED <<ret, abort_cause, faults>>
     \/ /\ CanFail
        /\ faults' = faults + 1
        /\ Abort("output_dir")
  /\ UNCHANGED <<cfg_vars, cache_before, sent, output_format, doc, translatable, tree_vars, languages, use_cache, cache_dir,
                 cache_files, output_files, initial_cache, run, lang_idx, leaf_idx,
                 translation_cache, loaded_cache, translations, events, total_calls,
                 calls_failed>>

\* source_data = self._load_json_file(input_file); the flattening; the early
\* "return True" when nothing is translatable.
LoadInput ==
  /\ pc = "load_input"
  /\ \/ /\ translatable' = _extract_translatable_values(doc, <<>>)
        /\ IF translatable' = <<>>
           THEN ret' = "True" /\ pc' = "done"
           ELSE ret' = ret /\ pc' = "language"
        /\ lang_idx' = 1
        /\ UNCHANGED <<abort_cause, faults>>
     \/ /\ CanFail
        /\ faults' = faults + 1
        /\ Abort("input")
        /\ UNCHANGED <<translatable, lang_idx>>
  /\ UNCHANGED <<cfg_vars, cache_before, sent, output_format, doc, tree_vars, languages, use_cache, cache_dir, cache_files,
                 output_files, initial_cache, run, leaf_idx, translation_cache,
                 loaded_cache, translations, events, total_calls, calls_failed>>

\* "for lang in languages:" the loop head; "return True" after the last one.
NextLanguage ==
  /\ pc = "language"
  /\ IF lang_idx <= Len(languages)
     THEN /\ pc' = IF use_cache THEN "cache_path" ELSE "translate"
          /\ translation_cache' = JDict(<<>>)
          /\ loaded_cache' = JDict(<<>>)
          /\ translations' = <<>>
          /\ leaf_idx' = 1
          /\ events' = <<>>
          /\ ret' = ret
     ELSE /\ pc' = "done"
          /\ ret' = "True"
          /\ UNCHANGED <<translation_cache, loaded_cache, translations, leaf_idx, events>>
  /\ UNCHANGED <<cfg_vars, cache_before, sent, output_format, doc, translatable, tree_vars, languages, use_cache, cache_dir,
                 cache_files, output_files, initial_cache, run, lang_idx, abort_cause,
                 faults, total_calls, calls_failed>>

\* cache_file = self._get_cache_file_path(input_file, lang): creates
\* <inputDir>/.i18n_cache; an exception of mkdir is not caught there.
GetCacheFilePath ==
  /\ pc = "cache_path"
  /\ \/ /\ cache_dir' = TRUE
        /\ pc' = "load_cache"
        /\ events' = Append(events, [e |-> "mkdir"])
        /\ UNCHANGED <<ret, abort_cause, faults>>
     \/ /\ CanFail
        /\ faults' = faults + 1
        /\ Abort("cache_dir")
        /\ UNCHANGED <<cache_dir, events>>
  /\ UNCHANGED <<cfg_vars, cache_before, sent, output_format, doc, translatable, tree_vars, languages, use_cache, cache_files,
                 output_files, initial_cache, run, lang_idx, leaf_idx,
                 translation_cache, loaded_cache, translations, total_calls,
                 calls_failed>>

\* translation_cache = self._load_translation_cache(cache_file)
LoadCache ==
  /\ pc = "load_cache"
  /\ \E open_fails \in BOOLEAN :
       /\ open_fails => (CanFail /\ cache_files[languages[lang_idx]].state # "absent")
       /\ faults' = IF open_fails THEN faults + 1 ELSE faults
       /\ translation_cache' =
            _load_translation_cache(cache_files[languages[lang_idx]], open_fails)
       /\ events' = Append(events, [e |-> "load", failed |-> open_fails])
  /\ loaded_cache' = translation_cache'
  /\ pc' = "translate"
  /\ UNCHANGED <<cfg_vars, cache_before, sent, output_format, doc, translatable, tree_vars, languages, use_cache, cache_dir,
                 cache_files, output_files, initial_cache, run, lang_idx, leaf_idx,
                 translations, ret, abort_cause, total_calls, calls_failed>>

\* A leaf loop followed by the cache save whether or not caching is on.
AfterLeaf_always_save ==
  IF leaf_idx < Len(translatable) THEN "translate" ELSE "save_cache"

\* A leaf loop with the cache save inside its body.
AfterLeaf_save_in_loop ==
  IF use_cache THEN "save_cache"
  ELSE IF leaf_idx < Len(translatable) THEN "translate" ELSE "write_output"

\* Where the leaf loop goes after the leaf at leaf_idx.
AfterLeaf ==
  IF leaf_idx < Len(translatable) THEN "translate"
  ELSE IF use_cache THEN "save_cache" ELSE "write_output"

\* One iteration of "for path, text in translatable_values.items():" that
\* finds the text in the cache.
CacheHit ==
  /\ pc = "translate"
  /\ use_cache
  /\ LET path == translatable[leaf_idx][1]
         text == translatable[leaf_idx][2]
     IN  /\ cache_contains(translation_cache, text) = "True"
         /\ IF cache_getitem(translation_cache, text).raises
            THEN /\ Abort("cache_type")
                 /\ UNCHANGED <<translations, leaf_idx, events>>
            ELSE /\ translations' =
                      dict_setitem(translations, path,
                                   cache_getitem(translation_cache, text).value)
                 /\ events' = Append(events, [e |-> "hit", path |-> path, text |-> text.val])
                 /\ leaf_idx' = leaf_idx + 1
                 /\ pc' = AfterLeaf
                 /\ UNCHANGED <<ret, abort_cause>>
  /\ UNCHANGED <<cfg_vars, cache_before, sent, output_format, doc, translatable, tree_vars, languages, use_cache, cache_dir,
                 cache_files, output_files, initial_cache, run, lang_idx,
                 translation_cache, loaded_cache, faults, total_calls, calls_failed>>

\* The membership test itself raises (the loaded cache is a number or null).
CacheTestRaises ==
  /\ pc = "translate"
  /\ use_cache
  /\ cache_contains(translation_cache, translatable[leaf_idx][2]) = "TypeError"
  /\ Abort("cache_type")
  /\ UNCHANGED <<cfg_vars, cache_before, sent, output_format, doc, translatable, tree_vars, languages, use_cache, cache_dir,
                 cache_files, output_files, initial_cache, run, lang_idx, leaf_idx,
                 translation_cache, loaded_cache, translations, faults, events,
                 total_calls, calls_failed>>

\* One iteration that calls the backend: the call returns or raises; with
\* caching the result is stored, and a store that raises is handled by the
\* same except clause as a failed call.
Translate ==
  /\ pc = "translate"
  /\ LET path == translatable[leaf_idx][1]
         text == translatable[leaf_idx][2]
         lang == languages[lang_idx]
     IN  /\ use_cache => cache_contains(translation_cache, text) = "False"
         /\ total_calls' = total_calls + 1
         /\ sent' = sent \cup {<<lang, text.val>>}
         /\ \/ \E translated_text \in BackendResults(text, lang) :
                 LET stored == IF use_cache
                               THEN cache_setitem(translation_cache, text, translated_text)
                               ELSE [raises |-> FALSE, cache |-> translation_cache]
                 IN  IF stored.raises
                     THEN /\ translations' =
                               dict_setitem(translations, path, on_translate_error(text).translation)
                          /\ events' = Append(events,
                               [e |-> "call", path |-> path, text |-> text.val,
                                instructed |-> lang_name(lang),
                                result |-> translated_text, stored |-> FALSE])
                          /\ UNCHANGED <<translation_cache, calls_failed>>
                          /\ IF on_translate_error(text).abort
                             THEN Abort("translate") /\ leaf_idx' = leaf_idx
                             ELSE /\ pc' = AfterLeaf
                                  /\ leaf_idx' = leaf_idx + 1
                                  /\ UNCHANGED <<ret, abort_cause>>
                     ELSE /\ translations' = dict_setitem(translations, path, translated_text)
                          /\ translation_cache' = stored.cache
                          /\ events' = Append(events,
                               [e |-> "call", path |-> path, text |-> text.val,
                                instructed |-> lang_name(lang),
                                result |-> translated_text, stored |-> use_cache])
                          /\ pc' = AfterLeaf
                          /\ leaf_idx' = leaf_idx + 1
                          /\ UNCHANGED <<ret, abort_cause, calls_failed>>
            \/ /\ translations' =
                    dict_setitem(translations, path, on_translate_error(text).translation)
               /\ events' = Append(events,
                    [e |-> "raise", path |-> path, text |-> text.val,
                     instructed |-> lang_name(lang)])
               /\ calls_failed' = TRUE
               /\ UNCHANGED translation_cache
               /\ IF on_translate_error(text).abort
                  THEN Abort("translate") /\ leaf_idx' = leaf_idx
                  ELSE /\ pc' = AfterLeaf
                       /\ leaf_idx' = leaf_idx + 1
                       /\ UNCHANGED <<ret, abort_cause>>
  /\ UNCHANGED <<cfg_vars, cache_before, output_format, doc, translatable, tree_vars, languages, use_cache,
                 cache_dir, cache_files, output_files, initial_cache, run, lang_idx,
                 loaded_cache, faults>>

\* self._save_translation_cache(cache_file, translation_cache): every
\* exception is swallowed.
SaveCache ==
  /\ pc = "save_cache"
  /\ \E outcome \in WriteOutcomes :
       /\ outcome # "ok" => CanFail
       /\ faults' = IF outcome = "ok" THEN faults ELSE faults + 1
       /\ cache_files' =
            [cache_files EXCEPT ![languages[lang_idx]] =
               write_json(cache_files[languages[lang_idx]], translation_cache, outcome)]
       /\ events' = Append(events, [e |-> "save", outcome |-> outcome])
  /\ pc' = "write_output"
  /\ UNCHANGED <<cfg_vars, cache_before, sent, output_format, doc, translatable, tree_vars, languages, use_cache, cache_dir,
                 output_files, initial_cache, run, lang_idx, leaf_idx,
                 translation_cache, loaded_cache, translations, ret, abort_cause,
                 total_calls, calls_failed>>

\* translated_data = self._build_translated_structure(source_data,
\* translations), written to <output_dir>/<stem>_<lang>.<format>.
WriteOutput ==
  /\ pc = "write_output"
  /\ \E outcome \in WriteOutcomes :
       /\ outcome # "ok" => CanFail
       /\ faults' = IF outcome = "ok" THEN faults ELSE faults + 1
       /\ output_files' =
            [output_files EXCEPT ![languages[lang_idx]] =
               save_output(output_files[languages[lang_idx]],
                           _build_translated_structure(doc, translations, <<>>),
                           output_format, outcome)]
       /\ IF outcome = "ok"
          THEN /\ pc' = "language"
               /\ lang_idx' = lang_idx + 1
               /\ events' = Append(events, [e |-> "output"])
               /\ UNCHANGED <<ret, abort_cause>>
          ELSE /\ Abort("output_file")
               /\ UNCHANGED <<lang_idx, events>>
  /\ UNCHANGED <<cfg_vars, cache_before, sent, output_format, doc, translatable, tree_vars, languages, use_cache, cache_dir,
                 cache_files, initial_cache, run, leaf_idx, translation_cache,
                 loaded_cache, translations, total_calls, calls_failed>>

\* generate_i18n is called again on the same input with the same arguments.
\* The process is terminated before generate_i18n returns: its memory is
\* gone and the files stay as they are.  A termination inside
\* "with open(file, 'w') as f: json.dump(data, f)" (or yaml.dump) comes after
\* open has truncated the file and before the text is complete.
Kill ==
  /\ pc \notin {"idle", "done", "killed"}
  /\ CanFail
  /\ faults' = faults + 1
  /\ pc' = "killed"
  /\ \E in_write \in BOOLEAN :
       /\ in_write => pc \in {"save_cache", "write_output"}
       /\ cache_files' =
            IF in_write /\ pc = "save_cache"
            THEN [cache_files EXCEPT ![languages[lang_idx]] = PartialFile]
            ELSE cache_files
       /\ output_files' =
            IF in_write /\ pc = "write_output"
            THEN [output_files EXCEPT ![languages[lang_idx]] = PartialFile]
            ELSE output_files
  /\ translatable' = <<>>
  /\ lang_idx' = 0
  /\ leaf_idx' = 0
  /\ translation_cache' = JNull
  /\ loaded_cache' = JNull
  /\ translations' = <<>>
  /\ events' = <<>>
  /\ total_calls' = 0
  /\ calls_failed' = FALSE
  /\ UNCHANGED <<cfg_vars, cache_before, sent, output_format, doc, tree_vars, languages, use_cache,
                 cache_dir, initial_cache, run, ret, abort_cause>>

RunAgain ==
  /\ pc \in {"done", "killed"}
  /\ run < MaxRuns
  /\ run' = run + 1
  /\ pc' = "mkdir_output"
  /\ translatable' = <<>>
  /\ lang_idx' = 0
  /\ leaf_idx' = 0
  /\ translation_cache' = JNull
  /\ loaded_cache' = JNull
  /\ translations' = <<>>
  /\ ret' = "None"
  /\ abort_cause' = "none"
  /\ events' = <<>>
  /\ total_calls' = 0
  /\ calls_failed' = FALSE
  /\ cache_before' = cache_files
  /\ UNCHANGED <<cfg_vars, sent, output_format, doc, tree_vars, languages, use_cache, cache_dir, cache_files,
                 output_files, initial_cache, faults>>

Next ==
  \/ MkdirOutput
  \/ LoadInput
  \/ NextLanguage
  \/ GetCacheFilePath
  \/ LoadCache
  \/ CacheHit
  \/ CacheTestRaises
  \/ Translate
  \/ SaveCache
  \/ WriteOutput
  \/ Kill
  \/ RunAgain

Spec == Init /\ [][Next]_vars

(***************************************************************************)
(* cli.main: one action per subcommand.                                    *)
(***************************************************************************)
\* Largest number of commands run one after the other on one config file.
MaxCommands == 2

\* A line written to stdout or stderr: its kind and the values formatted
\* into it.
Line(kind, values) == [kind |-> kind, values |-> values]

\* Config files found before the first command: none, text that is not
\* JSON, and every combination of, per provider, no section, an empty key,
\* the template's key, the key "your_<provider>_api_key_here" and a real
\* key, with default_provider absent, claude, or an unsupported name.
KeyChoices(provider) ==
  {NoSection, Section(<<>>), Section(TemplateKey(provider)),
   Section(listing_placeholder(provider)), Section(<<"sk-", provider>>)}

DefaultChoices == {NoDefault, "claude", "deepl"}

InitialConfigs ==
  {[sections |-> f, default_provider |-> d] :
     f \in {g \in [ProviderSet -> UNION {KeyChoices(p) : p \in ProviderSet}] :
              \A p \in ProviderSet : g[p] \in KeyChoices(p)},
     d \in DefaultChoices}

InitialConfigFiles ==
  {AbsentFile, MalformedFile} \cup {ConfigFile(c) : c \in InitialConfigs}

\* What the provider's API does when the translator calls it: the call
\* raises, or it returns a response.
BackendBehaviours == {"raise"} \cup ResponseKinds

CfgInit ==
  /\ doc = JNull
  /\ translatable = <<>>
  /\ translations_arg = <<>>
  /\ rebuilt = JNull
  /\ op = "none"
  /\ RunIdle
  /\ config_file \in InitialConfigFiles
  /\ config_before = config_file
  /\ cli_command = "none"
  /\ cli_args = NoArgs
  /\ cli_exit = -1
  /\ cli_stdout = <<>>
  /\ cli_stderr = <<>>
  /\ cli_count = 0
  /\ cache_paths = {}

\* main() is entered with a subcommand.
CliEnter(command) ==
  /\ pc = "idle"
  /\ cli_count < MaxCommands
  /\ cli_count' = cli_count + 1
  /\ cli_command' = command
  /\ config_before' = config_file
  /\ UNCHANGED <<doc, translatable, tree_vars, run_vars, cache_paths>>

\* The top-level "except Exception as e: print(..., file=sys.stderr);
\* sys.exit(1)" after an exception raised before anything was printed.
CliError(exception) ==
  /\ cli_exit' = 1
  /\ cli_stdout' = <<>>
  /\ cli_stderr' = <<Line("[ERROR]", <<exception>>)>>

\* init: success = init_config(...); sys.exit(0 if success else 1)
CliInit ==
  /\ CliEnter("init")
  /\ \E force \in BOOLEAN, default_provider \in ProviderSet, outcome \in WriteOutcomes :
       LET done == init_config(config_file, force, default_provider, outcome)
       IN  /\ cli_args' = [NoArgs EXCEPT !.force = force,
                                         !.default_provider = default_provider]
           /\ config_file' = done.file
           /\ cli_exit' = IF done.ret THEN 0 ELSE 1
           /\ cli_stdout' = [n \in 1..Len(done.printed) |-> Line(done.printed[n], <<>>)]
           /\ cli_stderr' = <<>>

\* validate: validate_config(args.config), then "[OK]".
CliValidate ==
  /\ CliEnter("validate")
  /\ cli_args' = NoArgs
  /\ IF validate_config(config_file).raises # "none"
     THEN CliError(validate_config(config_file).raises)
     ELSE /\ cli_exit' = 0
          /\ cli_stdout' = <<Line("[OK]", <<>>)>>
          /\ cli_stderr' = <<>>
  /\ UNCHANGED config_file

\* list: the providers of get_available_providers, or a warning.
CliList ==
  /\ CliEnter("list")
  /\ cli_args' = NoArgs
  /\ cli_exit' = 0
  /\ cli_stdout' =
       IF get_available_providers(config_file) # <<>>
       THEN <<Line("[OK]", get_available_providers(config_file))>>
       ELSE <<Line("[WARN]", <<>>), Line("hint", <<>>)>>
  /\ cli_stderr' = <<>>
  /\ UNCHANGED config_file

\* translate / translate-with-context: construct the translator, call the
\* provider, print the result.
CliTranslateCommand(provider, backend) ==
  LET translator == BrickTranslator(config_file, provider)
  IN  /\ IF translator.raises # "none"
         THEN /\ cli_args' = [NoArgs EXCEPT !.provider = provider]
              /\ CliError(translator.raises)
         ELSE LET result == translate(translator.provider, backend)
              IN  /\ cli_args' = [NoArgs EXCEPT !.provider = provider, !.backend = backend]
                  /\ cli_exit' = IF result.raises = "none" THEN 0 ELSE 1
                  /\ cli_stdout' =
                       <<Line("banner", <<translator.provider>>)>> \o
                       IF result.raises = "none"
                       THEN <<Line("result", result.text)>> ELSE <<>>
                  /\ cli_stderr' =
                       IF result.raises = "none" THEN <<>>
                       ELSE <<Line("[ERROR]", <<result.raises>>)>>
      /\ UNCHANGED config_file

\* translate: translator.translate(args.text, target_lang, temperature)
CliTranslate ==
  /\ CliEnter("translate")
  /\ \E provider \in {"None"} \cup ProviderSet, backend \in BackendBehaviours :
       CliTranslateCommand(provider, backend)

\* translate-with-context: translator.translate_with_context(text, context)
CliTranslateWithContext ==
  /\ CliEnter("translate-with-context")
  /\ \E provider \in {"None"} \cup ProviderSet, backend \in BackendBehaviours :
       CliTranslateCommand(provider, backend)

CfgNext ==
  \/ CliInit
  \/ CliValidate
  \/ CliList
  \/ CliTranslate
  \/ CliTranslateWithContext

SpecConfig == CfgInit /\ [][CfgNext]_vars

(***************************************************************************)
(* Claims about generate_i18n.                                             *)
(***************************************************************************)
\* The language whose leaf loop is running or has just finished.
CurrentLang ==
  IF pc = "language" THEN languages[lang_idx - 1] ELSE languages[lang_idx]

BackendEvents == {n \in 1..Len(events) : events[n].e \in {"call", "raise"}}

LeafEvents == {n \in 1..Len(events) : events[n].e \in {"call", "raise", "hit"}}

\* The node of the written document out that has, level by level, the keys
\* and indices of the node at pos in the source Document src.
RECURSIVE node_like(_, _, _)
node_like(src, out, pos) ==
  IF pos = <<>> THEN out
  ELSE IF src.kind = "dict"
  THEN node_like(src.items[Head(pos)][2],
                 dict_getitem(out.items, src.items[Head(pos)][1]), Tail(pos))
  ELSE node_like(src.items[Head(pos)], out.items[Head(pos)], Tail(pos))

\* The output file of the language has just been written by this run.
OutputJustWritten == pc = "language" /\ lang_idx > 1

\* The causes of "return False" that are no backend failure.
IOAbortCauses == {"output_dir", "input", "cache_dir", "cache_type", "output_file"}

NominalCache ==
  initial_cache.state = "json" => initial_cache.data.kind = "dict"

\* C7: per-leaf failure recovery.  When the backend call for a leaf raises,
\* the Translation Result of the leaf's path is the original text; the leaf
\* loop goes on, so that when the loop has ended every translatable path has
\* a result and the results of the calls that returned (and were not undone
\* by a failing store) are the backend's; the output file then written holds
\* the original text at the failed leaf and the backend's text at the other
\* leaves; a backend failure is never the cause of "return False", and a run
\* with no I/O failure and a well-formed cache returns True with every
\* language's output file written.
C7_LeafFailureRecovery ==
  /\ \A n \in BackendEvents :
       events[n].e = "raise" =>
         /\ dict_contains(translations, events[n].path)
         /\ dict_getitem(translations, events[n].path) = JStr(events[n].text)
  /\ pc \in {"save_cache", "write_output"} \/ OutputJustWritten =>
       /\ dict_keys(translations) = dict_keys(translatable)
       /\ \A n \in BackendEvents :
            events[n].e = "call" /\ (use_cache => events[n].stored) =>
              dict_getitem(translations, events[n].path) = events[n].result
  /\ OutputJustWritten =>
       /\ IsWritten(output_files[CurrentLang])
       /\ \A n \in BackendEvents : \A d \in DocNodes :
            d.kind = "str" /\ d.path = events[n].path =>
              node_like(doc, output_files[CurrentLang].data, d.pos) =
                IF events[n].e = "raise" \/ (use_cache /\ ~events[n].stored)
                THEN JStr(events[n].text) ELSE events[n].result
  /\ pc = "done" /\ ret = "False" => abort_cause \in IOAbortCauses
  /\ pc = "done" /\ calls_failed /\ faults = 0 /\ NominalCache =>
       /\ ret = "True"
       /\ \A n \in 1..Len(languages) : IsWritten(output_files[languages[n]])

\* The spec's scenario: " y" translated, the call for "x" raised, one language.
C7_Witness ==
  /\ pc = "done" /\ ret = "True" /\ run = 1
  /\ doc = DocScenario /\ languages = <<"zh">>
  /\ \E n \in BackendEvents : events[n].e = "raise" /\ events[n].text = <<"x">>
  /\ \E n \in BackendEvents : events[n].e = "call" /\ events[n].text = <<" ", "y">>
  /\ output_files["zh"] =
       JsonFile(JDict(<< <<<<"t">>, JStr(<<"x">>)>>,
                         <<<<"m">>, JDict(<< <<<<"c">>, JNum(3)>> >>)>>,
                         <<<<"g">>, JList(<<JStr(<<"zh", ":", " ", "y">>), JStr(<<>>)>>)>> >>))

FileAsRead ==
  IF pc \in {"translate", "save_cache"} /\ use_cache THEN cache_files[CurrentLang]
  ELSE AbsentFile

C9_Case ==
  /\ pc = "done" /\ run = 1 /\ ret = "True"
  /\ use_cache
  /\ initial_cache \in {AbsentFile, JsonFile(JDict(<<>>))}
  /\ Len(languages) = 2
  /\ doc = DocRepeated

\* C9 as stated: in that case the backend has been called once in total.
C9_OneCallInTotal == C9_Case => total_calls = 1

\* C9 as amended: in that case, when no backend call has failed, the backend
\* has been called once per language for the one distinct string, two calls
\* in total (not one, and not languages x leaves = four).
C9_OneCallPerLanguage == C9_Case /\ ~calls_failed => total_calls = 2

C9_Witness ==
  /\ C9_Case /\ ~calls_failed /\ total_calls = 2
  /\ sent = {<<"zh", <<"x">>>>, <<"es", <<"x">>>>}
  /\ \A l \in Langs : IsWritten(output_files[l]) /\ cache_files[l].state = "json"

\* C10: cache failures never abort.  With use_cache=True, a run in which
\* neither the input, nor the output directory, nor an output file failed
\* returns True and, when there is something to translate, has written
\* every language's output file, whatever happened to the cache directory
\* and the cache files and whatever the cache files held.
C10_CacheFailuresNeverAbort ==
  pc = "done" /\ use_cache /\ abort_cause \notin {"output_dir", "input", "output_file"} =>
    /\ ret = "True"
    /\ translatable # <<>> =>
         \A n \in 1..Len(languages) : IsWritten(output_files[languages[n]])

\* This run has written the output file of each language before lang_idx.
WrittenUpTo(k) ==
  \A n \in 1..(k - 1) : IsWritten(output_files[languages[n]])

AllOutputsWritten == lang_idx = Len(languages) + 1 /\ WrittenUpTo(lang_idx)

\* C11: overall result.  A finished run has returned True or False; it has
\* returned True exactly when the input was read and either the
\* Translatable Set is empty or this run wrote an output file for every
\* language; when reading the input, creating the output directory or
\* writing a language's file failed it has returned False, the languages
\* after the failing one were not started, and the step that fails leaves
\* the output files of all other languages as they were.
C11_OverallResult ==
  /\ [](pc = "done" =>
          /\ ret \in {"True", "False"}
          /\ ret = "True" <=>
               /\ lang_idx >= 1
               /\ translatable = <<>> \/ AllOutputsWritten
          /\ abort_cause \in {"input", "output_dir", "output_file"} =>
               /\ ret = "False"
               /\ lang_idx <= Len(languages)
               /\ WrittenUpTo(lang_idx))
  /\ [][pc # "done" /\ pc' = "done" /\ ret' = "False" =>
          /\ lang_idx' = lang_idx
          /\ \A l \in Langs :
               (lang_idx >= 1 /\ lang_idx <= Len(languages) /\ l = languages[lang_idx])
               \/ output_files'[l] = output_files[l]]_vars

\* Writing the second language's file failed: False, the first file stays.
C11_Witness ==
  /\ pc = "done" /\ ret = "False" /\ abort_cause = "output_file"
  /\ languages = <<"zh", "es">> /\ lang_idx = 2 /\ run = 1
  /\ IsWritten(output_files["zh"])
  /\ ~IsWritten(output_files["es"])

\* The source Document has no string leaf with a non-whitespace character.
NoTextInDocument ==
  \A d \in DocStrings : strip(node_at(doc, d.pos).val) = <<>>

\* C12: empty Translatable Set.  For an input Document without a non-blank
\* string leaf the backend is never invoked and no output file and no cache
\* file is created or changed, in any state of any run; and a run that read
\* the input and created the output directory returns True.
C12_EmptyTranslatableSet ==
  NoTextInDocument =>
    /\ total_calls = 0 /\ sent = {}
    /\ output_files = [l \in Langs |-> AbsentFile]
    /\ cache_files = cache_before
    /\ pc = "done" => \/ ret = "True" /\ translatable = <<>>
                      \/ ret = "False" /\ abort_cause \in {"output_dir", "input"}

C12_Witness ==
  /\ doc = DocNoText /\ use_cache /\ initial_cache = AbsentFile
  /\ pc = "done" /\ ret = "True" /\ abort_cause = "none"
  /\ total_calls = 0
  /\ \A l \in Langs : output_files[l] = AbsentFile /\ cache_files[l] = AbsentFile

\* The leaf at d is translatable: a string with a non-whitespace character.
IsTextLeaf(d) == d.kind = "str" /\ strip(node_at(doc, d.pos).val) # <<>>

\* C13: output files.  When a language's output file has been written, it
\* is a complete document in the requested format whose content is the
\* rebuild of the source Document with the language's Translation Result
\* Set, key order included; every leaf that is not translatable has its
\* source value, and every translatable leaf has the result of its path; a
\* run that returns True on a non-empty Translatable Set has written every
\* language's file.
C13_OutputFiles ==
  /\ OutputJustWritten =>
       /\ output_files[CurrentLang].state = output_format
       /\ output_files[CurrentLang].data = _build_translated_structure(doc, translations, <<>>)
       /\ SameShape(output_files[CurrentLang].data, doc)
       /\ \A d \in DocLeaves :
            node_like(doc, output_files[CurrentLang].data, d.pos) =
              IF IsTextLeaf(d) THEN dict_getitem(translations, d.path)
              ELSE node_at(doc, d.pos)
  /\ pc = "done" /\ ret = "True" /\ translatable # <<>> => AllOutputsWritten

\* C14: blank strings are never translated end to end.  The backend is
\* never handed an empty or whitespace-only text, and in every output file
\* written each leaf that is an empty or whitespace-only string in the
\* source Document has its source value.
C14_BlankNeverTranslated ==
  /\ \A call \in sent : strip(call[2]) # <<>>
  /\ \A l \in Langs :
       IsWritten(output_files[l]) =>
         \A d \in DocStrings :
           ~IsTextLeaf(d) =>
             node_like(doc, output_files[l].data, d.pos) = node_at(doc, d.pos)

\* C15: crash safety of the cache.  When the process has been terminated
\* during a run with caching enabled, each cache file is absent, or as it
\* was before the run, or a complete new mapping; never truncated or
\* partially written.
C15_CacheCrashSafe ==
  pc = "killed" /\ use_cache =>
    \A l \in Langs :
      \/ cache_files[l] = AbsentFile
      \/ cache_files[l] = cache_before[l]
      \/ cache_files[l].state = "json" /\ cache_files[l].data.kind = "dict"

\* The file holds a JSON object.
IsMapping(file) == file.state = "json" /\ file.data.kind = "dict"

\* C16: the cache is never pruned.  After a run with caching enabled, each
\* language's persisted mapping contains every entry it had before the
\* run, with the same value, also when reading the cache file failed.
C16_CacheNeverPruned ==
  pc = "done" /\ use_cache =>
    \A l \in Langs :
      IsMapping(cache_before[l]) =>
        /\ IsMapping(cache_files[l])
        /\ \A k \in dict_keys(cache_before[l].data.items) :
             /\ dict_contains(cache_files[l].data.items, k)
             /\ dict_getitem(cache_files[l].data.items, k) =
                  dict_getitem(cache_before[l].data.items, k)

EventsOf(kind) == {n \in 1..Len(events) : events[n].e = kind}

\* C17: cache I/O ordering.  With caching enabled, in each language pass
\* the cache is loaded once, before the first lookup, and saved once, after
\* the last leaf has been looked up or translated and before the
\* language's output file is written; between the load and the save the
\* cache file is not written.
C17_CacheIOOrdering ==
  use_cache =>
    /\ Cardinality(EventsOf("load")) <= 1
    /\ Cardinality(EventsOf("save")) <= 1
    /\ \A n \in LeafEvents :
         /\ \E m \in EventsOf("load") : m < n
         /\ \A m \in EventsOf("save") : n < m
    /\ EventsOf("save") # {} => Cardinality(LeafEvents) = Len(translatable)
    /\ \A n \in EventsOf("output") : \E m \in EventsOf("save") : m < n
    /\ pc = "translate" => EventsOf("load") # {}
    /\ pc = "write_output" \/ OutputJustWritten => EventsOf("save") # {}
    /\ pc \in {"load_cache", "translate", "save_cache"} =>
         cache_files[CurrentLang] = cache_before[CurrentLang]

C17_Witness ==
  /\ use_cache /\ OutputJustWritten /\ doc = DocScenario /\ run = 1
  /\ initial_cache = AbsentFile
  /\ [n \in 1..Len(events) |-> events[n].e] =
       <<"mkdir", "load", "call", "call", "save", "output">>
  /\ events[5].outcome = "ok"
  /\ IsMapping(cache_files[CurrentLang])

(***************************************************************************)
(* Claims about the config file and the command line.                      *)
(***************************************************************************)
\* The providers the list command printed.
Listed ==
  IF cli_stdout # <<>> /\ cli_stdout[1].kind = "[OK]"
  THEN {cli_stdout[1].values[n] : n \in 1..Len(cli_stdout[1].values)}
  ELSE {}

StdoutKinds == {cli_stdout[n].kind : n \in 1..Len(cli_stdout)}

\* C18: provider listing.  The list command reports exactly the providers
\* whose api_key is present, non-empty and not the value init wrote; on a
\* config as written by init_config it reports none; and it reports p
\* exactly when BrickTranslator(provider=p) passes its credential check on
\* the same config.
C18_ProviderListing ==
  cli_command = "list" /\ config_file.state = "json" =>
    /\ \A p \in ProviderSet :
         p \in Listed <=>
           /\ config_file.data.sections[p].present
           /\ config_file.data.sections[p].api_key # <<>>
           /\ config_file.data.sections[p].api_key # TemplateKey(p)
    /\ (\E d \in ProviderSet : config_file.data = generate_default_config(d)) =>
         Listed = {}
    /\ \A p \in ProviderSet :
         p \in Listed <=> BrickTranslator(config_file, p).raises = "none"

\* C19: init does not clobber.  init on an existing file without force
\* exits with status 1 and leaves the file as it was; with force, or when
\* there is no file, it writes the template with the requested
\* default_provider and exits with status 0, unless writing the file fails.
C19_InitNoClobber ==
  cli_command = "init" =>
    /\ config_before.state # "absent" /\ ~cli_args.force =>
         /\ cli_exit = 1
         /\ config_file = config_before
    /\ config_before.state = "absent" \/ cli_args.force =>
         \/ /\ cli_exit = 0
            /\ config_file = ConfigFile(generate_default_config(cli_args.default_provider))
            /\ config_file.data.default_provider = cli_args.default_provider
         \/ /\ cli_exit = 1
            /\ StdoutKinds = {"[ERROR]"}

\* init refuses to overwrite a config that holds a real key.
C19_Witness ==
  /\ cli_command = "init" /\ ~cli_args.force /\ cli_exit = 1
  /\ config_before.state = "json"
  /\ config_before.data.sections["qwen"].api_key = <<"sk-", "qwen">>
  /\ config_file = config_before

\* The command read the config file and found it missing or malformed, or
\* the credential check or the provider's API failed.
CliErrorRaised ==
  \/ /\ cli_command \in {"validate", "list", "translate", "translate-with-context"}
     /\ config_before.state \in {"absent", "malformed"}
  \/ /\ cli_command \in {"translate", "translate-with-context"}
     /\ \/ BrickTranslator(config_before, cli_args.provider).raises # "none"
        \/ translate(BrickTranslator(config_before, cli_args.provider).provider,
                     cli_args.backend).raises # "none"

\* C20: CLI exit status.  A command exits with status 0 when it succeeds
\* and with a non-zero status when an error is raised (missing or malformed
\* config file, missing or placeholder credential, backend failure); a
\* command that fails has written the error text to stderr and has printed
\* no translation result.
C20_CliExitStatus ==
  cli_command # "none" =>
    /\ CliErrorRaised => cli_exit # 0
    /\ cli_exit # 0 =>
         /\ cli_stderr # <<>>
         /\ "result" \notin StdoutKinds

TranslateCommands == {"translate", "translate-with-context"}

\* The provider a translator constructed from file with this --provider
\* argument would use.
ChosenProvider(file, provider) ==
  IF provider # "None" THEN provider
  ELSE IF file.data.default_provider # NoDefault THEN file.data.default_provider
  ELSE "qwen"

\* The config file is missing or malformed, the chosen provider is not
\* supported, or its api_key is missing, empty or the value init wrote.
ConfigUnusable(file, provider) ==
  \/ file.state \in {"absent", "malformed"}
  \/ /\ file.state = "json"
     /\ LET chosen == ChosenProvider(file, provider)
        IN  \/ chosen \notin ProviderSet
            \/ /\ chosen \in ProviderSet
               /\ \/ ~file.data.sections[chosen].present
                  \/ file.data.sections[chosen].api_key = <<>>
                  \/ file.data.sections[chosen].api_key = TemplateKey(chosen)

\* The translator was constructed: its banner is on stdout.
TranslatorConstructed ==
  \E n \in 1..Len(cli_stdout) : cli_stdout[n].kind = "banner"

\* C21: configuration errors fail fast.  A translate command whose config
\* file is missing or malformed, whose chosen provider (argument, else
\* default_provider, else qwen) is unsupported, or whose api_key is missing,
\* empty or the placeholder, fails with an error before the provider's API
\* is called; a translator exists only with a supported provider and a
\* credential that is not the placeholder.
C21_ConfigFailFast ==
  cli_command \in TranslateCommands =>
    /\ ConfigUnusable(config_before, cli_args.provider) =>
         /\ cli_exit = 1
         /\ cli_stderr # <<>>
         /\ cli_args.backend = "none"
         /\ ~TranslatorConstructed
    /\ TranslatorConstructed =>
         LET chosen == cli_stdout[1].values[1]
         IN  /\ chosen = ChosenProvider(config_before, cli_args.provider)
             /\ chosen \in ProviderSet
             /\ config_before.data.sections[chosen].api_key
                  \notin {<<>>, TemplateKey(chosen)}

\* translate on the config init wrote: the default provider's key is the
\* placeholder, and the command fails without a call.
C21_Witness ==
  /\ cli_command = "translate" /\ cli_args.provider = "None"
  /\ \E d \in ProviderSet : config_before = ConfigFile(generate_default_config(d))
  /\ cli_exit = 1 /\ cli_args.backend = "none"

\* The text printed as the translation result, if one was printed.
PrintedResults ==
  {cli_stdout[n].values : n \in {k \in 1..Len(cli_stdout) : cli_stdout[k].kind = "result"}}

\* C22: empty provider responses are errors.  For each provider, translate
\* and translate_with_context return a non-empty string or raise: a response
\* with an empty or missing text is never printed as a translation, and the
\* command fails.
C22_EmptyResponseIsError ==
  cli_command \in TranslateCommands /\ TranslatorConstructed =>
    /\ <<>> \notin PrintedResults
    /\ cli_args.backend \in {"empty", "blank"} => cli_exit # 0

LanguageTags == {"zh", "en", "es"}

\* C23: target language is honoured.  In the pass for a language tag every
\* request to the backend names the language that tag denotes, and two
\* different tags never name the same language.
C23_TargetLanguageHonoured ==
  pc \in {"translate", "save_cache", "write_output", "language"} =>
    \A n \in BackendEvents :
      /\ events[n].instructed = announced_name(CurrentLang)
      /\ \A other \in LanguageTags \ {CurrentLang} : events[n].instructed # lang_name(other)

\* The backend as a function of (text, language).
det_translate(text, lang) == JStr(<<lang, ":">> \o text.val)

\* The leaf loop of generate_i18n for one language from leaf k on, with
\* det_translate as the backend and a cache and translations as they are
\* before leaf k: whether the loop raised, and the translations and the
\* cache it ends with.
RECURSIVE leaf_loop(_, _, _, _)
leaf_loop(lang, k, cache, done) ==
  IF k > Len(translatable)
  THEN [raised |-> FALSE, translations |-> done, cache |-> cache]
  ELSE LET path == translatable[k][1]
           text == translatable[k][2]
           found == IF use_cache THEN cache_contains(cache, text) ELSE "False"
       IN  IF found = "TypeError"
           THEN [raised |-> TRUE, translations |-> done, cache |-> cache]
           ELSE IF found = "True"
           THEN IF cache_getitem(cache, text).raises
                THEN [raised |-> TRUE, translations |-> done, cache |-> cache]
                ELSE leaf_loop(lang, k + 1, cache,
                               dict_setitem(done, path, cache_getitem(cache, text).value))
           ELSE LET stored == IF use_cache
                              THEN cache_setitem(cache, text, det_translate(text, lang))
                              ELSE [raises |-> FALSE, cache |-> cache]
                IN  IF stored.raises
                    THEN leaf_loop(lang, k + 1, cache,
                                   dict_setitem(done, path, on_translate_error(text).translation))
                    ELSE leaf_loop(lang, k + 1, stored.cache,
                                   dict_setitem(done, path, det_translate(text, lang)))

\* What generate_i18n(languages=[lang]) does on the files as they were
\* before this run, with det_translate as the backend and no I/O failure.
Alone(lang) ==
  leaf_loop(lang, 1,
            IF use_cache THEN _load_translation_cache(cache_before[lang], FALSE)
            ELSE JDict(<<>>),
            <<>>)

AloneOutput(lang) ==
  save_output(AbsentFile, _build_translated_structure(doc, Alone(lang).translations, <<>>),
              output_format, "ok")

AloneCache(lang) ==
  IF use_cache THEN write_json(cache_before[lang], Alone(lang).cache, "ok")
  ELSE cache_before[lang]

\* Every backend request of the pass was answered as by det_translate.
PassDeterministic ==
  \A n \in BackendEvents :
    /\ events[n].e = "call"
    /\ events[n].result = det_translate(JStr(events[n].text), CurrentLang)

\* The files a language pass leaves depend on the language's own cache
\* file only.
PassDependsOnOwnCache ==
  OutputJustWritten /\ PassDeterministic /\ faults = 0 =>
    /\ output_files[CurrentLang] = AloneOutput(CurrentLang)
    /\ cache_files[CurrentLang] = AloneCache(CurrentLang)

\* C24: language independence.  With a deterministic backend and no I/O
\* error, the output file and the cache file of a language after
\* generate_i18n are those of a run for that language alone, whichever
\* other languages are in the list and in whichever order.
C24_LanguageIndependence ==
  /\ PassDependsOnOwnCache
  /\ pc = "done" /\ run = 1 /\ faults = 0 /\ ~calls_failed /\ translatable # <<>> =>
       \A n \in 1..Len(languages) :
         ~Alone(languages[n]).raised =>
           /\ IsWritten(output_files[languages[n]])
           /\ IsWritten(AloneCache(languages[n])) => IsWritten(cache_files[languages[n]])

\* The objects of the rebuilt tree that can be mutated.
RebuiltContainers ==
  {o \in build_objects(doc, translations_arg, <<>>, <<>>) : o.kind \in {"dict", "list"}}

Entries(value) ==
  IF value.kind = "dict" THEN {value.items[n] : n \in 1..Len(value.items)} ELSE {}

FileEntries(file) == IF IsMapping(file) THEN Entries(file.data) ELSE {}

\* The entry was returned by a backend call of this language pass that
\* succeeded.
FromSuccessfulCall(entry) ==
  \E n \in BackendEvents :
    /\ events[n].e = "call"
    /\ events[n].text = entry[1]
    /\ events[n].result = entry[2]

\* C26: only successful translations are cached.  Every entry a language
\* pass adds to the language's cache, in memory and in the file it saves,
\* was returned by a backend call of the pass for that text that succeeded;
\* a leaf whose call failed has its original text as result and adds no
\* entry.
C26_OnlySuccessfulCached ==
  use_cache /\ pc \in {"translate", "save_cache", "write_output", "language"}
    /\ EventsOf("load") # {} =>
    /\ \A entry \in Entries(translation_cache) \ FileEntries(cache_before[CurrentLang]) :
         FromSuccessfulCall(entry)
    /\ \A entry \in FileEntries(cache_files[CurrentLang])
                    \ FileEntries(cache_before[CurrentLang]) :
         FromSuccessfulCall(entry)
    /\ \A n \in BackendEvents :
         events[n].e = "raise" =>
           /\ dict_getitem(translations, events[n].path) = JStr(events[n].text)
           /\ \A entry \in FileEntries(cache_files[CurrentLang])
                           \ FileEntries(cache_before[CurrentLang]) :
                entry[1] = events[n].text => entry[2] # JStr(events[n].text)

\* The spec's scenario with a cache: the call for "x" failed, the call for
\* " y" returned, and the saved cache holds " y" only.
C26_Witness ==
  /\ use_cache /\ pc = "write_output" /\ doc = DocScenario /\ run = 1
  /\ cache_before[CurrentLang] = AbsentFile
  /\ \E n \in BackendEvents : events[n].e = "raise" /\ events[n].text = <<"x">>
  /\ FileEntries(cache_files[CurrentLang]) =
       {<< <<" ", "y">>, det_translate(JStr(<<" ", "y">>), CurrentLang) >>}

\* The leaf events of the pass whose text is a key of the loaded cache.
LeavesInLoadedCache ==
  {n \in LeafEvents : /\ loaded_cache.kind = "dict"
                       /\ dict_contains(loaded_cache.items, events[n].text)}

\* A leaf whose text is a key of the loaded cache is served from it,
\* without a backend call.
HitServedFromCache ==
  \A n \in LeavesInLoadedCache :
    /\ events[n].e = "hit"
    /\ \A m \in BackendEvents : events[m].path # events[n].path
    /\ dict_getitem(translations, events[n].path) =
         dict_getitem(loaded_cache.items, events[n].text)

\* C27: cache hit semantics.  With caching enabled, a leaf whose text is
\* a key of the loaded cache causes no backend call, its result is the
\* cached value, and the language's cache keeps the entry for that text as
\* it was.
C27_CacheHitSemantics ==
  use_cache /\ pc \in {"translate", "save_cache", "write_output", "language"} =>
    /\ HitServedFromCache
    /\ \A n \in LeavesInLoadedCache :
         <<events[n].text, dict_getitem(loaded_cache.items, events[n].text)>>
           \in FileEntries(cache_files[CurrentLang])

\* The backend events of the pass for the path of leaf k.
CallsFor(k) == {n \in BackendEvents : events[n].path = translatable[k][1]}

\* C28: caching disabled leaves the cache untouched.  With use_cache=False
\* the cache directory is not created, no cache file is read or written,
\* and in each language pass the backend is invoked once for every path of
\* the Translatable Set, also for a string that occurs at several paths or
\* is in a cache file.
C28_NoCacheUntouched ==
  ~use_cache /\ pc # "idle" =>
    /\ cache_dir = (initial_cache # AbsentFile)
    /\ cache_files = [l \in Langs |-> initial_cache]
    /\ EventsOf("mkdir") \cup EventsOf("load") \cup EventsOf("save") \cup EventsOf("hit") = {}
    /\ \A k \in 1..Len(translatable) : Cardinality(CallsFor(k)) <= 1
    /\ pc = "translate" =>
         \A k \in 1..Len(translatable) : Cardinality(CallsFor(k)) = IF k < leaf_idx THEN 1 ELSE 0
    /\ pc = "write_output" \/ OutputJustWritten =>
         \A k \in 1..Len(translatable) : Cardinality(CallsFor(k)) = 1

\* "x" at two paths without caching, next to a cache file that holds "x":
\* two calls, and the file is as it was.
C28_Witness ==
  /\ ~use_cache /\ OutputJustWritten /\ doc = DocRepeated /\ run = 1
  /\ initial_cache = OldCacheFile
  /\ Cardinality({n \in BackendEvents : events[n].text = <<"x">>}) = 2
  /\ cache_files[CurrentLang] = OldCacheFile

\* C29: cache file scoping.  Two different (input stem, language) pairs
\* of one input directory never get the same cache file path, also when
\* stems or language tags contain '_'.
C29_CachePathsDistinct ==
  \A a, b \in cache_paths :
    <<a.stem, a.language>> # <<b.stem, b.language>> => a.path # b.path

\* C30: consistent translation of repeated strings.  With caching
\* enabled, in every output document written for a language, two leaves
\* that hold the same non-blank string in the source hold the same string
\* in the output, whatever the backend answers and whichever calls fail.
C30_RepeatedStringsConsistent ==
  use_cache =>
    \A l \in Langs :
      IsWritten(output_files[l]) =>
        \A d, e \in DocStrings :
          IsTextLeaf(d) /\ node_at(doc, d.pos) = node_at(doc, e.pos) =>
            node_like(doc, output_files[l].data, d.pos) =
              node_like(doc, output_files[l].data, e.pos)

====
